---- MODULE Spec2Model ----
(***************************************************************************)
(* Model of android_world/env/interface.py (AsyncAndroidEnv: reset,        *)
(* get_state, _get_stable_state, execute_action) and of                    *)
(* android_world/env/json_action.py (JSONAction, _compare_actions).        *)
(*                                                                         *)
(* Conventions                                                             *)
(*   Optional[T]   None is <<>>, a present value v is <<v>>.               *)
(*   str           a tuple of one-character strings; '' is <<>>.           *)
(*   State         [pixels, ui_elements]; the forest is what ui_elements   *)
(*                 is derived from and is never read by this code.         *)
(*   time          seconds are counted in tenths (0.5 s is 5, 6.0 s is 60),*)
(*                 so elapsed_time += sleep_duration is exact.             *)
(*   one thread    the methods are blocking and called sequentially: one   *)
(*                 call is in flight at a time, over all sessions.         *)
(***************************************************************************)
EXTENDS Integers, Sequences, FiniteSets, TLC

VARIABLES
    interaction_cache,    \* [session -> Optional[str]]   self.interaction_cache
    prior_state,          \* [session -> Optional[State]] self._prior_state
    pc,                   \* "idle", "loop" inside _get_stable_state, "done" at a return
    cur,                  \* the session whose call is in flight / was last
    stability_threshold,  \* arguments of the _get_stable_state in flight
    sleep_duration,
    timeout,
    stable_checks,        \* locals of the _get_stable_state in flight
    elapsed_time,
    current_state,
    op,                   \* history: the last call started, with arguments
    calls,                \* history: collaborator calls made by that call
    result,               \* history: how that call ended
    samples,              \* history: ui_elements of the last snapshots
    nsamples,             \* history: snapshots acquired by that call
    had_prior,            \* history: _prior_state was set when it started
    own_baseline,         \* history: _prior_state was assigned by that call
    pre_cache,            \* history: interaction_cache when it started
    last_obs,             \* history: the last snapshot the device produced
    prior_pre_reset,      \* history: [session -> _prior_state predates the last reset]
    a, b,                 \* JSONAction operands
    eq_ab, eq_ba,         \* outcomes of a == b and b == a
    jpc,                  \* "kwargs", "constructed", "rejected", "serialized",
                          \* "parsed", "compared": how far a has come
    wire                  \* json_str(a): the key/value pairs, in order

session_vars == <<interaction_cache, prior_state, pc, cur, stability_threshold,
                  sleep_duration, timeout, stable_checks, elapsed_time,
                  current_state, op, calls, result, samples, nsamples,
                  had_prior, own_baseline, pre_cache, last_obs,
                  prior_pre_reset>>
action_vars == <<a, b, eq_ab, eq_ba, jpc, wire>>
vars == <<session_vars, action_vars>>

(***************************************************************************)
(* Bounds                                                                  *)
(***************************************************************************)
MaxThreshold == 3     \* stability_threshold of a direct call ranges over 0..MaxThreshold
MaxSleep == 3         \* sleep_duration of a direct call ranges over 1..MaxSleep
MaxTimeout == 5       \* timeout of a direct call ranges over 0..MaxTimeout
MaxPopulated == 2     \* fields other than None in a compared JSONAction

(***************************************************************************)
(* Optional values and strings                                             *)
(***************************************************************************)
None == <<>>
Some(v) == <<v>>
Val(o) == o[1]

\* Python truthiness of an Optional[str]: None and '' are falsy.
Truthy(o) == o # None /\ Val(o) # <<>>

Sessions == {"s1", "s2"}

\* State(pixels, forest, ui_elements)
State(p, e) == [pixels |-> p, ui_elements |-> e]

\* Default arguments of _get_stable_state, in tenths of a second.
DefaultStabilityThreshold == 3
DefaultSleepDuration == 5
DefaultTimeout == 60

ANSWER == "answer"

(***************************************************************************)
(* JSONAction: the dataclass fields, in declaration order.                 *)
(***************************************************************************)
Fields == <<"action_type", "index", "x", "y", "text", "direction",
            "goal_status", "app_name", "activity_nickname">>

\* JSONAction(): every field defaults to None.
JSONAction == [action_type |-> None, index |-> None, x |-> None, y |-> None,
               text |-> None, direction |-> None, goal_status |-> None,
               app_name |-> None, activity_nickname |-> None]

Str42 == <<"4", "2">>
Str7 == <<"7">>

\* The actions execute_action is called with.
RouterActions ==
    { [JSONAction EXCEPT !.action_type = Some(ANSWER), !.text = Some(Str42)],
      [JSONAction EXCEPT !.action_type = Some(ANSWER), !.text = Some(Str7)],
      [JSONAction EXCEPT !.action_type = Some(ANSWER), !.text = Some(<<>>)],
      [JSONAction EXCEPT !.action_type = Some(ANSWER)],
      [JSONAction EXCEPT !.action_type = Some("click"), !.index = Some(<<"int", 5>>)],
      [JSONAction EXCEPT !.action_type = Some("input_text"), !.text = Some(Str42)] }

\* str.lower(), over the letters the model's strings are written in.
LowerChar(c) == CASE c = "C" -> "c" [] c = "H" -> "h" [] OTHER -> c
Lower(str) == [i \in 1..Len(str) |-> LowerChar(str[i])]

\* getattr(x, f) raises AttributeError unless the instance has the attribute.
HasAttr(x, f) == f \in DOMAIN x

\* app_name lowered on the left operand only.
AppNameMatchLeftLowered(x, y) ==
    IF x.app_name # None /\ y.app_name # None
    THEN Lower(Val(x.app_name)) = Val(y.app_name)
    ELSE x.app_name = y.app_name

\* _compare_actions, lines 139-142.
AppNameMatch(x, y) ==
    IF x.app_name # None /\ y.app_name # None
    THEN Lower(Val(x.app_name)) = Lower(Val(y.app_name))
    ELSE x.app_name = y.app_name

\* _compare_actions, lines 144-147.
TextMatch(x, y) ==
    IF x.text # None /\ y.text # None
    THEN Lower(Val(x.text)) = Lower(Val(y.text))
    ELSE x.text = y.text

\* _compare_actions: the conjunction is evaluated left to right and stops at
\* the first false operand; its last operand reads the attribute orientation,
\* which is no field of the dataclass.
_compare_actions(x, y) ==
    IF ~( /\ AppNameMatch(x, y)
          /\ TextMatch(x, y)
          /\ x.action_type = y.action_type
          /\ x.index = y.index
          /\ x.x = y.x
          /\ x.y = y.y
          /\ x.direction = y.direction
          /\ x.goal_status = y.goal_status )
    THEN "False"
    ELSE IF ~HasAttr(x, "orientation") \/ ~HasAttr(y, "orientation")
    THEN "AttributeError"
    ELSE IF x.orientation = y.orientation THEN "True" ELSE "False"

\* JSONAction.__eq__ on two JSONActions.
__eq__(self, other) == _compare_actions(self, other)

\* The values the fields of a compared action range over.
FieldValues ==
    [action_type : {None, Some("click"), Some("open_app")},
     index : {None, Some(<<"int", 5>>), Some(<<"str", 5>>)},
     x : {None, Some(1)},
     y : {None, Some(1)},
     text : {None, Some(<<>>), Some(<<"H", "i">>), Some(<<"h", "i">>)},
     direction : {None, Some("up")},
     goal_status : {None, Some("complete")},
     app_name : {None, Some(<<"C">>), Some(<<"c">>)},
     activity_nickname : {None, Some("app_drawer")}]

Populated(x) == {i \in 1..Len(Fields) : x[Fields[i]] # None}

\* JSONAction(**kwargs) with at most MaxPopulated keyword arguments.
Actions == {x \in FieldValues : Cardinality(Populated(x)) <= MaxPopulated}

(***************************************************************************)
(* Construction and json_str                                               *)
(***************************************************************************)
\* _ACTION_TYPES, lines 39-54
_ACTION_TYPES ==
    {"click", "double_tap", "scroll", "swipe", "input_text", "navigate_home",
     "navigate_back", "keyboard_enter", "open_app", "status", "wait",
     "long_press", "answer", "unknown"}

\* A click given both an index and coordinates.
IndexAndCoordinates ==
    [JSONAction EXCEPT !.action_type = Some("click"),
                       !.index = Some(<<"int", 5>>),
                       !.x = Some(1), !.y = Some(1)]

\* Keyword arguments JSONAction is constructed from: those of Actions, the
\* same with an action_type that is no member of _ACTION_TYPES, and a
\* malformed combination.
Kwargs ==
    Actions
      \cup {[x EXCEPT !.action_type = Some("fly")] : x \in Actions}
      \cup {IndexAndCoordinates}

\* The generated __init__ assigns the nine fields; the class defines no
\* __post_init__, so no keyword arguments are refused.
Constructs(kwargs) == TRUE

\* json.dumps of one field value.  JSON keeps numbers and strings apart; the
\* payload of a string is the str the model writes for that field.
JsonDumps(f, o) ==
    IF o = None THEN <<"null">>
    ELSE IF f = "index"
    THEN IF Val(o)[1] = "int" THEN <<"number", Val(o)[2]>>
                              ELSE <<"string", Val(o)[2]>>
    ELSE IF f \in {"x", "y"} THEN <<"number", Val(o)>>
    ELSE <<"string", Val(o)>>

\* json.loads of one field value, followed by JSONAction(**pairs).
JsonLoads(f, j) ==
    IF j[1] = "null" THEN None
    ELSE IF f = "index"
    THEN IF j[1] = "number" THEN Some(<<"int", j[2]>>)
                            ELSE Some(<<"str", j[2]>>)
    ELSE Some(j[2])

\* Every field emitted, None as null.
EmitsEveryField(v) == TRUE

\* line 123: value is not None
EmitsField(v) == v # None

\* lines 121-124: the pairs of self.__dict__.items(), which iterates in the
\* order the fields were assigned, from field i on.
RECURSIVE NonNull(_, _)
NonNull(x, i) ==
    IF i > Len(Fields) THEN <<>>
    ELSE (IF EmitsField(x[Fields[i]])
          THEN << <<Fields[i], JsonDumps(Fields[i], x[Fields[i]])>> >>
          ELSE <<>>) \o NonNull(x, i + 1)

\* json_str: the key/value pairs of the JSON object, in the order written.
json_str(x) == NonNull(x, 1)

\* JSONAction(**json.loads(w)): the defaults, overridden pair by pair.
RECURSIVE FromPairs(_, _)
FromPairs(w, acc) ==
    IF Len(w) = 0 THEN acc
    ELSE FromPairs(Tail(w),
                   [acc EXCEPT ![Head(w)[1]] = JsonLoads(Head(w)[1], Head(w)[2])])

Keys(w) == [k \in 1..Len(w) |-> w[k][1]]

(***************************************************************************)
(* Collaborator calls.  Every call either returns or raises; nothing in    *)
(* interface.py catches, so a raise ends the method.                       *)
(***************************************************************************)
Call(fn, ok, arg) == [fn |-> fn, ok |-> ok, arg |-> arg]

\* The snapshots a device with elements E and pixel buffers Px can produce.
Observations(E, Px) == {State(p, e) : p \in Px, e \in E}

\* What a device call can do: raise (None) or return a snapshot.
Outcomes(E, Px) == {None} \cup {Some(o) : o \in Observations(E, Px)}

\* What a call that is made only if `made` can do.
OutcomesIf(made, E, Px) == IF made THEN Outcomes(E, Px) ELSE {None}
OkIf(made) == IF made THEN BOOLEAN ELSE {FALSE}

Returned(v) == [kind |-> "return", value |-> v]
\* The exception of the collaborator call fn, passed on to the caller.
Raised(fn) == [kind |-> "raise", value |-> <<fn>>]
Running == [kind |-> "running", value |-> None]

\* The step issued again after it raised.
_get_state_retried(log, ok) ==
    IF ok THEN Append(log, Call("step", TRUE, None))
          ELSE Append(Append(log, Call("step", FALSE, None)),
                      Call("step", FALSE, None))

\* self._base_env.step(_get_no_op_action()), as issued by _get_state.
_get_state(log, ok) == Append(log, Call("step", ok, None))

\* samples keeps the ui_elements of the last H snapshots.
Remember(h, e, H) ==
    IF H = 0 THEN h
    ELSE IF Len(h) < H THEN Append(h, e) ELSE Append(Tail(h), e)

(***************************************************************************)
(* AsyncAndroidEnv                                                         *)
(***************************************************************************)
Op(name, s, arg) == [name |-> name, session |-> s, arg |-> arg]

\* The assignment made to the class attribute, which every session reads.
SetCacheOfClass(ic, s, v) == [t \in DOMAIN ic |-> v]

\* self.interaction_cache = v: an attribute of the instance.
SetCache(ic, s, v) == [ic EXCEPT ![s] = v]

\* reset without its line 188.
ResetCacheKept(ic, s) == ic

\* reset, line 188.
ResetCache(ic, s) == SetCache(ic, s, Some(<<>>))

\* reset, line 186.
PressesHome(go_home) == go_home

\* No _get_stable_state is in flight: its locals and histories are unset.
NoLocals ==
    /\ stability_threshold' = 0
    /\ sleep_duration' = 0
    /\ timeout' = 0
    /\ stable_checks' = 0
    /\ elapsed_time' = 0
    /\ current_state' = None
    /\ samples' = <<>>
    /\ nsamples' = 0
    /\ had_prior' = FALSE
    /\ own_baseline' = FALSE

\* __init__: every session starts with no baseline and an empty cache.
SessionInit ==
    /\ interaction_cache = [s \in Sessions |-> Some(<<>>)]
    /\ prior_state = [s \in Sessions |-> None]
    /\ prior_pre_reset = [s \in Sessions |-> FALSE]
    /\ pc = "idle"
    /\ cur = "s1"
    /\ stability_threshold = 0
    /\ sleep_duration = 0
    /\ timeout = 0
    /\ stable_checks = 0
    /\ elapsed_time = 0
    /\ current_state = None
    /\ op = Op("__init__", "s1", None)
    /\ calls = <<>>
    /\ result = Returned(None)
    /\ samples = <<>>
    /\ nsamples = 0
    /\ had_prior = FALSE
    /\ own_baseline = FALSE
    /\ pre_cache = interaction_cache
    /\ last_obs = None

\* reset(go_home)
reset(s, go_home, E, Px) ==
    /\ pc = "idle"
    /\ LET home == PressesHome(go_home)
       IN  \E home_ok \in OkIf(home) :
           \E r \in OutcomesIf(~home \/ home_ok, E, Px) :
             LET log1 == IF home THEN <<Call("press_home_button", home_ok, None)>>
                                 ELSE <<>>
                 cleared == ~home \/ home_ok
                 log2 == IF cleared THEN Append(log1, Call("reset", r # None, None))
                                    ELSE log1
                 done == cleared /\ r # None
             IN  /\ calls' = log2
                 /\ interaction_cache' =
                        IF cleared THEN ResetCache(interaction_cache, s)
                                   ELSE interaction_cache
                 /\ result' = IF done THEN Returned(r)
                              ELSE Raised(log2[Len(log2)].fn)
                 /\ last_obs' = IF done THEN r ELSE last_obs
                 /\ prior_pre_reset' =
                        IF done /\ prior_state[s] # None
                        THEN [prior_pre_reset EXCEPT ![s] = TRUE]
                        ELSE prior_pre_reset
    /\ op' = Op("reset", s, go_home)
    /\ cur' = s
    /\ pc' = "done"
    /\ pre_cache' = interaction_cache
    /\ NoLocals
    /\ UNCHANGED prior_state

\* get_state(wait_to_stabilize=False), lines 236-239 and 192-193.
get_state(s, E, Px) ==
    /\ pc = "idle"
    /\ \E r \in Outcomes(E, Px) :
         /\ calls' = _get_state(<<>>, r # None)
         /\ result' = IF r # None THEN Returned(r) ELSE Raised("step")
         /\ last_obs' = IF r # None THEN r ELSE last_obs
    /\ op' = Op("get_state", s, FALSE)
    /\ cur' = s
    /\ pc' = "done"
    /\ pre_cache' = interaction_cache
    /\ NoLocals
    /\ UNCHANGED <<interaction_cache, prior_state, prior_pre_reset>>

\* execute_action, line 242.
IsAnswer(action) == action.action_type = Some(ANSWER)

\* execute_action, line 243.
AnswerCache(old, text) == text

\* The display issued for every text but None.
DisplaysAnswerUnlessNone(text) == text # None

\* execute_action, line 244.
DisplaysAnswer(text) == Truthy(text)

\* The answer path without its return: it goes on to probe and actuate.
AnswerPathFallingThrough(s, action, E, Px) ==
    \E r \in Outcomes(E, Px) :
      /\ interaction_cache' = SetCache(interaction_cache, s, action.text)
      /\ calls' = <<Call("display_message", TRUE, action.text),
                    Call("step", r # None, None)>>
      /\ result' = IF r # None THEN Returned(None) ELSE Raised("step")
      /\ last_obs' = IF r # None THEN r ELSE last_obs

\* execute_action, lines 242-246: the answer path.
AnswerPath(s, action, E, Px) ==
    LET shown == DisplaysAnswer(action.text)
    IN  \E ok \in OkIf(shown) :
          /\ interaction_cache' =
                 SetCache(interaction_cache, s,
                          AnswerCache(interaction_cache[s], action.text))
          /\ calls' = IF shown
                         THEN <<Call("display_message", ok, action.text)>>
                         ELSE <<>>
          /\ result' = IF shown /\ ~ok THEN Raised("display_message")
                                        ELSE Returned(None)
          /\ UNCHANGED last_obs

\* The elements of the stabilization baseline handed to the actuation.
ActuationElementsOfBaseline(prior, state) ==
    IF prior # None THEN Val(prior).ui_elements ELSE state.ui_elements

\* line 250: state.ui_elements, of the snapshot taken at line 247
ActuationElements(prior, state) == state.ui_elements

\* execute_action, lines 247-253: the actuation path.
ActuationPath(s, action, E, Px) ==
    \E r \in Outcomes(E, Px) :
    \E ok2 \in OkIf(r # None) :
    \E ok3 \in OkIf(ok2) :
      LET log1 == _get_state(<<>>, r # None)
          log2 == IF r # None
                  THEN Append(log1, Call("logical_screen_size", ok2, None))
                  ELSE log1
          log3 == IF ok2
                  THEN Append(log2, Call("execute_adb_action", ok3,
                                         <<ActuationElements(prior_state[s],
                                                             Val(r))>>))
                  ELSE log2
      IN  /\ calls' = log3
          /\ result' = IF ok3 THEN Returned(None)
                              ELSE Raised(log3[Len(log3)].fn)
          /\ last_obs' = IF r # None THEN r ELSE last_obs
          /\ UNCHANGED interaction_cache

\* execute_action(action)
execute_action(s, action, E, Px) ==
    /\ pc = "idle"
    /\ IF IsAnswer(action)
       THEN AnswerPath(s, action, E, Px)
       ELSE ActuationPath(s, action, E, Px)
    /\ op' = Op("execute_action", s, action)
    /\ cur' = s
    /\ pc' = "done"
    /\ pre_cache' = interaction_cache
    /\ NoLocals
    /\ UNCHANGED <<prior_state, prior_pre_reset>>

(***************************************************************************)
(* _get_stable_state                                                       *)
(***************************************************************************)
\* A baseline acquired by every call.
NeedsBaselineAlways(prior) == TRUE

\* line 214: not self._prior_state
NeedsBaseline(prior) == prior = None

\* The loop test with the timeout compared by <=.
LoopConditionInclusive(checks, threshold, elapsed, limit) ==
    checks < threshold /\ elapsed <= limit

\* line 221: the loop test
LoopCondition(checks, threshold, elapsed, limit) ==
    checks < threshold /\ elapsed < limit

\* line 222: only ui_elements are compared
SameElements(prior, current) == prior.ui_elements = current.ui_elements

\* A match sets the count to one.
NextStableChecksOnce(checks, same) == IF same THEN 1 ELSE 0

\* lines 223 and 227
NextStableChecks(checks, same) == IF same THEN checks + 1 ELSE 0

\* The early exit taken one match late.
StabilityAchievedLate(checks, threshold) == checks = threshold + 1

\* line 224: the early exit
StabilityAchieved(checks, threshold) == checks = threshold

\* The baseline kept when a sample differs.
NextPriorKept(prior, current, same) == prior

\* line 228: a differing sample becomes the baseline
NextPrior(prior, current, same) == IF same THEN prior ELSE current

\* The baseline returned in place of the last sample.
ReturnedStatePrior(prior, current) == prior

\* line 234
ReturnedState(prior, current) == current

\* lines 214-219: the baseline, if there is none, and the first sample.
StableStart(s, name, threshold, sleep, limit, E, Px, H) ==
    /\ pc = "idle"
    /\ LET need == NeedsBaseline(prior_state[s])
       IN  \E r1 \in OutcomesIf(need, E, Px) :
           \E r2 \in OutcomesIf(~need \/ r1 # None, E, Px) :
             LET got1 == need /\ r1 # None
                 log1 == IF need THEN _get_state(<<>>, got1) ELSE <<>>
                 log2 == IF ~need \/ got1 THEN _get_state(log1, r2 # None) ELSE log1
                 got2 == r2 # None
                 h1 == IF got1 THEN Remember(<<>>, Val(r1).ui_elements, H) ELSE <<>>
                 h2 == IF got2 THEN Remember(h1, Val(r2).ui_elements, H) ELSE h1
             IN  /\ calls' = log2
                 /\ prior_state' = IF got1 THEN [prior_state EXCEPT ![s] = r1]
                                            ELSE prior_state
                 /\ prior_pre_reset' = IF got1
                                        THEN [prior_pre_reset EXCEPT ![s] = FALSE]
                                        ELSE prior_pre_reset
                 /\ current_state' = r2
                 /\ last_obs' = IF got2 THEN r2 ELSE IF got1 THEN r1 ELSE last_obs
                 /\ samples' = h2
                 /\ nsamples' = (IF got1 THEN 1 ELSE 0) + (IF got2 THEN 1 ELSE 0)
                 /\ pc' = IF got2 THEN "loop" ELSE "done"
                 /\ result' = IF got2 THEN Running ELSE Raised("step")
                 /\ had_prior' = ~need
                 /\ own_baseline' = got1
    /\ op' = Op(name, s, TRUE)
    /\ cur' = s
    /\ pre_cache' = interaction_cache
    /\ stability_threshold' = threshold
    /\ sleep_duration' = sleep
    /\ timeout' = limit
    /\ stable_checks' = 0
    /\ elapsed_time' = 0
    /\ UNCHANGED interaction_cache

\* get_state(wait_to_stabilize=True), lines 237-238
get_state_stable(s, E, Px, H) ==
    StableStart(s, "get_state", DefaultStabilityThreshold, DefaultSleepDuration,
                DefaultTimeout, E, Px, H)

\* _get_stable_state(stability_threshold, sleep_duration, timeout)
_get_stable_state(s, E, Px, H) ==
    \E threshold \in 0..MaxThreshold, sleep \in 1..MaxSleep, limit \in 0..MaxTimeout :
        StableStart(s, "_get_stable_state", threshold, sleep, limit, E, Px, H)

\* lines 221-234: one test of the loop and, if it passes, one iteration.
StableLoop(E, Px, H) ==
    /\ pc = "loop"
    /\ LET s == cur
           prior == Val(prior_state[s])
           current == Val(current_state)
           same == SameElements(prior, current)
           checks == NextStableChecks(stable_checks, same)
           return == /\ pc' = "done"
                     /\ result' = Returned(Some(ReturnedState(prior, current)))
                     /\ UNCHANGED <<prior_state, prior_pre_reset, elapsed_time,
                                    current_state, calls, samples, nsamples,
                                    last_obs, own_baseline>>
       IN  IF LoopCondition(stable_checks, stability_threshold, elapsed_time, timeout)
           THEN IF same /\ StabilityAchieved(checks, stability_threshold)
                THEN /\ stable_checks' = checks
                     /\ return
                ELSE \E r \in Outcomes(E, Px) :
                       /\ stable_checks' = checks
                       /\ prior_state' =
                              [prior_state EXCEPT
                                  ![s] = Some(NextPrior(prior, current, same))]
                       /\ prior_pre_reset' =
                              IF same THEN prior_pre_reset
                              ELSE [prior_pre_reset EXCEPT ![s] = FALSE]
                       /\ own_baseline' = (own_baseline \/ ~same)
                       /\ elapsed_time' = elapsed_time + sleep_duration
                       /\ calls' = _get_state(calls, r # None)
                       /\ current_state' = IF r # None THEN r ELSE current_state
                       /\ last_obs' = IF r # None THEN r ELSE last_obs
                       /\ samples' = IF r # None
                                     THEN Remember(samples, Val(r).ui_elements, H)
                                     ELSE samples
                       /\ nsamples' = IF r # None THEN nsamples + 1 ELSE nsamples
                       /\ pc' = IF r # None THEN "loop" ELSE "done"
                       /\ result' = IF r # None THEN result ELSE Raised("step")
           ELSE /\ stable_checks' = stable_checks
                /\ return
    /\ UNCHANGED <<interaction_cache, cur, stability_threshold, sleep_duration,
                   timeout, op, had_prior, pre_cache>>

\* The method has returned or raised; the caller goes on to its next call.
Caller ==
    /\ pc = "done"
    /\ pc' = "idle"
    /\ op' = Op("__init__", "s1", None)
    /\ cur' = "s1"
    /\ calls' = <<>>
    /\ result' = Returned(None)
    /\ pre_cache' = interaction_cache
    /\ last_obs' = None
    /\ NoLocals
    /\ UNCHANGED <<interaction_cache, prior_state, prior_pre_reset>>

(***************************************************************************)
(* Specifications                                                          *)
(***************************************************************************)
\* ui_elements lists and pixel buffers of the devices
ElemsAB == {"A", "B"}
Elems == {"U1", "U2", "A", "B"}
Pixels == {0, 1}

\* samples covers a threshold's worth of snapshots and three more
HistLen == DefaultStabilityThreshold + 3

ActionInit ==
    /\ a = JSONAction
    /\ b = JSONAction
    /\ eq_ab = "none"
    /\ eq_ba = "none"
    /\ jpc = "kwargs"
    /\ wire = <<>>

Init == SessionInit /\ ActionInit

\* Two sessions, every public method.
Next ==
    \/ \E s \in Sessions, go_home \in BOOLEAN :
          reset(s, go_home, ElemsAB, Pixels) /\ UNCHANGED action_vars
    \/ \E s \in Sessions : get_state(s, ElemsAB, Pixels) /\ UNCHANGED action_vars
    \/ \E s \in Sessions : get_state_stable(s, ElemsAB, Pixels, 0) /\ UNCHANGED action_vars
    \/ \E s \in Sessions, action \in RouterActions :
          execute_action(s, action, ElemsAB, Pixels) /\ UNCHANGED action_vars
    \/ StableLoop(ElemsAB, Pixels, 0) /\ UNCHANGED action_vars
    \/ Caller /\ UNCHANGED action_vars

Spec == Init /\ [][Next]_vars

\* One session, stabilization with its snapshots remembered.
NextStable ==
    \/ \E go_home \in BOOLEAN : reset("s1", go_home, Elems, {0}) /\ UNCHANGED action_vars
    \/ get_state_stable("s1", Elems, {0}, HistLen) /\ UNCHANGED action_vars
    \/ _get_stable_state("s1", Elems, {0}, HistLen) /\ UNCHANGED action_vars
    \/ StableLoop(Elems, {0}, HistLen) /\ UNCHANGED action_vars
    \/ Caller /\ UNCHANGED action_vars

SpecStable == Init /\ [][NextStable]_vars

\* a == b and b == a, for two constructed actions.
Compare ==
    /\ eq_ab = "none"
    /\ eq_ab' = __eq__(a, b)
    /\ eq_ba' = __eq__(b, a)
    /\ UNCHANGED <<a, b, jpc, wire, session_vars>>

InitEq ==
    /\ SessionInit
    /\ a \in Actions
    /\ b \in Actions
    /\ eq_ab = "none"
    /\ eq_ba = "none"
    /\ jpc = "constructed"
    /\ wire = <<>>

NextEq == Compare

SpecEq == InitEq /\ [][NextEq]_vars

\* JSONAction(**kwargs)
Construct ==
    /\ jpc = "kwargs"
    /\ jpc' = IF Constructs(a) THEN "constructed" ELSE "rejected"
    /\ UNCHANGED <<a, b, eq_ab, eq_ba, wire, session_vars>>

\* wire = a.json_str()
Serialize ==
    /\ jpc = "constructed"
    /\ wire' = json_str(a)
    /\ jpc' = "serialized"
    /\ UNCHANGED <<a, b, eq_ab, eq_ba, session_vars>>

\* b = JSONAction(**json.loads(wire))
Parse ==
    /\ jpc = "serialized"
    /\ b' = FromPairs(wire, JSONAction)
    /\ jpc' = "parsed"
    /\ UNCHANGED <<a, eq_ab, eq_ba, wire, session_vars>>

\* b == a and a == b, for the action read back
CompareRead ==
    /\ jpc = "parsed"
    /\ eq_ab' = __eq__(a, b)
    /\ eq_ba' = __eq__(b, a)
    /\ jpc' = "compared"
    /\ UNCHANGED <<a, b, wire, session_vars>>

InitJson ==
    /\ SessionInit
    /\ a \in Kwargs
    /\ b = JSONAction
    /\ eq_ab = "none"
    /\ eq_ba = "none"
    /\ jpc = "kwargs"
    /\ wire = <<>>

NextJson == Construct \/ Serialize \/ Parse \/ CompareRead

\* Construction, serialization and reading back of one action.
SpecJson == InitJson /\ [][NextJson]_vars

(***************************************************************************)
(* Properties                                                              *)
(***************************************************************************)
\* The call in flight, or just ended, is a stabilization.
IsStableOp ==
    \/ op.name = "_get_stable_state"
    \/ op.name = "get_state" /\ op.arg = TRUE

\* samples[i..j] all hold the same ui_elements.
AllSame(h, i, j) == \A k \in i..j : h[k] = h[i]

NoCallRaised == \A i \in 1..Len(calls) : calls[i].ok

\* C1, as claimed: get_state(wait_to_stabilize=True) on a session with no
\* baseline, observing unstable, unstable, A, A, A, stops at the third A: the
\* next observation, B, is never acquired.
C1_StopsAtThirdA ==
    ~( /\ op.name = "get_state"
       /\ ~had_prior
       /\ nsamples = 6
       /\ samples = <<"U1", "U2", "A", "A", "A", "B">> )

\* C1, amended: a stabilization call with stability_threshold >= 1 on a
\* session with no baseline acquires no snapshot after stability_threshold + 1
\* consecutive snapshots with identical ui_elements (the first of them is the
\* baseline the other stability_threshold are matched against), and it has
\* not returned before: stable_checks counts the matches, one less than
\* the run of identical snapshots.
C1_StopsAfterThresholdMatches ==
    (IsStableOp /\ ~had_prior /\ stability_threshold >= 1 /\ result.kind # "raise")
        => /\ \A i \in 1..Len(samples) :
                 i + stability_threshold < Len(samples)
                     => ~AllSame(samples, i, i + stability_threshold)
           /\ (result.kind = "return" /\ stable_checks = stability_threshold)
                 => /\ Len(samples) > stability_threshold
                    /\ AllSame(samples, Len(samples) - stability_threshold,
                               Len(samples))

\* get_state(wait_to_stabilize=True) has returned the fourth A of
\* unstable, unstable, A, A, A, A.
C1_Witness ==
    /\ op.name = "get_state"
    /\ ~had_prior
    /\ pc = "done"
    /\ result.kind = "return"
    /\ result = Returned(Some(State(0, "A")))
    /\ nsamples = 6
    /\ samples = <<"U1", "U2", "A", "A", "A", "A">>
    /\ stable_checks = 3

\* C2: a stabilization call whose device calls all return sleeps once per
\* loop iteration and its elapsed_time stays below timeout + sleep_duration,
\* so it makes at most timeout / sleep_duration + 1 iterations and returns.
C2_BoundedTermination ==
    (IsStableOp /\ NoCallRaised)
        => /\ elapsed_time < timeout + sleep_duration
           /\ elapsed_time
                = sleep_duration * (Len(calls) - (IF had_prior THEN 1 ELSE 2))
           /\ (pc = "done") => result.kind = "return"
           /\ (pc = "loop") => nsamples = Len(calls)

\* A call has returned by the timeout, never stable, having slept past it.
C2_Witness ==
    /\ IsStableOp
    /\ pc = "done"
    /\ result.kind = "return"
    /\ stable_checks < stability_threshold
    /\ elapsed_time > timeout
    /\ timeout > 0

CallsOf(fn) == {i \in 1..Len(calls) : calls[i].fn = fn}

\* C3, as claimed: a stabilization call never compares a sample against a
\* baseline acquired before the session's last reset.
C3_ResetDiscardsBaseline ==
    ( /\ pc = "loop"
      /\ LoopCondition(stable_checks, stability_threshold, elapsed_time, timeout) )
        => ~prior_pre_reset[cur]

\* C4: when reset returns, the session's interaction cache is ''; reset
\* presses home once if go_home and never otherwise.
C4_ResetClearsCache ==
    (op.name = "reset")
        => /\ (result.kind = "return")
                 => interaction_cache[op.session] = Some(<<>>)
           /\ Cardinality(CallsOf("press_home_button"))
                = (IF op.arg THEN 1 ELSE 0)

\* reset(go_home=True) and reset(go_home=False) have returned on a session
\* whose cache held "42".
C4_Witness ==
    /\ op.name = "reset"
    /\ result.kind = "return"
    /\ pre_cache[op.session] = Some(Str42)
    /\ interaction_cache[op.session] = Some(<<>>)

\* C5: after execute_action of an answer, the cache is the action's text, and
\* display_message was called once with that text if the text is non-empty
\* and not at all if it is '' or None.
C5_AnswerOverwritesCache ==
    (op.name = "execute_action" /\ op.arg.action_type = Some(ANSWER))
        => /\ interaction_cache[op.session] = op.arg.text
           /\ IF op.arg.text \in {None, Some(<<>>)}
              THEN calls = <<>>
              ELSE /\ Len(calls) = 1
                   /\ calls[1].fn = "display_message"
                   /\ calls[1].arg = op.arg.text

\* An answer "7" has replaced a cache of "42", with one display.
C5_Witness ==
    /\ op.name = "execute_action"
    /\ op.arg.action_type = Some(ANSWER)
    /\ op.arg.text = Some(Str7)
    /\ pre_cache[op.session] = Some(Str42)
    /\ interaction_cache[op.session] = Some(Str7)
    /\ Len(calls) = 1

\* C6: an answer makes no step, screen-size or actuation call; any other
\* action leaves the cache as it was and makes no display call.
C6_ExclusiveEffects ==
    (op.name = "execute_action")
        => IF op.arg.action_type = Some(ANSWER)
           THEN \A i \in 1..Len(calls) : calls[i].fn = "display_message"
           ELSE /\ interaction_cache = pre_cache
                /\ CallsOf("display_message") = {}

\* A click has probed and actuated on a session whose cache holds "42".
C6_Witness ==
    /\ op.name = "execute_action"
    /\ op.arg.action_type = Some("click")
    /\ interaction_cache[op.session] = Some(Str42)
    /\ Len(calls) = 3
    /\ calls[1].fn = "step"
    /\ calls[3].fn = "execute_adb_action"
    /\ result.kind = "return"

C8_CacheIsPerSession ==
    \A s \in Sessions : s # op.session => interaction_cache[s] = pre_cache[s]

\* An answer and then a reset on s1 while the cache of s2 holds "42".
C8_Witness ==
    /\ op.session = "s1"
    /\ op.name = "reset"
    /\ pre_cache["s1"] = Some(Str7)
    /\ interaction_cache["s1"] = Some(<<>>)
    /\ interaction_cache["s2"] = Some(Str42)

\* C9: a collaborator call that raises is the last call its method makes, and
\* the method ends with that call's exception; a method none of whose calls
\* raised does not raise.
C9_NoRetry ==
    /\ \A i \in 1..Len(calls) :
          ~calls[i].ok => /\ i = Len(calls)
                          /\ pc = "done"
                          /\ result = Raised(calls[i].fn)
    /\ (result.kind = "raise")
          => /\ calls # <<>>
             /\ ~calls[Len(calls)].ok

\* The step of a stabilization loop has raised after earlier steps returned.
C9_Witness ==
    /\ IsStableOp
    /\ Len(calls) >= 4
    /\ ~calls[Len(calls)].ok
    /\ result = Raised("step")

\* C10: a == b and b == a end the same way: both False, both True or both
\* with the AttributeError of the orientation read.
C10_EqSymmetric == (eq_ab # "none") => eq_ab = eq_ba

\* Two actions whose app_name differs only in case have been compared.
C10_Witness ==
    /\ a.app_name = Some(<<"C">>)
    /\ b.app_name = Some(<<"c">>)
    /\ a.text = b.text
    /\ eq_ab # "none"
    /\ eq_ab = eq_ba

\* C11: equality is reflexive: comparing an action with itself (or with an
\* action whose fields are all the same) yields true.
C11_EqReflexive ==
    (eq_ab # "none" /\ a = b) => eq_ab = "True"

\* C12: two compared actions whose app_name and text differ at most in letter
\* case, and whose other fields are the same, are equal (the comparison
\* yields true); an action with a null app_name or text is not equal to one
\* where that field is non-null (the comparison yields false).
C12_CaseBlindNotNullBlind ==
    LET alike(o1, o2) == IF o1 # None /\ o2 # None
                         THEN Lower(Val(o1)) = Lower(Val(o2))
                         ELSE o1 = None /\ o2 = None
        others == /\ a.action_type = b.action_type
                  /\ a.index = b.index
                  /\ a.x = b.x
                  /\ a.y = b.y
                  /\ a.direction = b.direction
                  /\ a.goal_status = b.goal_status
                  /\ a.activity_nickname = b.activity_nickname
        oneNull(o1, o2) == (o1 = None) # (o2 = None)
    IN  (eq_ab # "none") =>
          /\ (others /\ alike(a.app_name, b.app_name) /\ alike(a.text, b.text))
                => eq_ab = "True"
          /\ (oneNull(a.app_name, b.app_name) \/ oneNull(a.text, b.text))
                => eq_ab = "False"

\* C13: the action constructed from the key/value pairs of json_str(a)
\* compares equal to a, in both directions.
C13_RoundTripEqual ==
    (jpc = "compared") => (eq_ab = "True" /\ eq_ba = "True")

\* C14: json_str writes one key for each field that is not None and no
\* other key, each once, in the declaration order of the fields, with the
\* field's value; a click with index 5 is written with the keys action_type
\* and index only.
C14_NonNullInOrder ==
    (jpc \in {"serialized", "parsed", "compared"}) =>
      /\ \A i \in 1..Len(Fields) :
            (a[Fields[i]] # None) <=> (\E k \in 1..Len(wire) : wire[k][1] = Fields[i])
      /\ Len(wire) = Cardinality(Populated(a))
      /\ \A k, l \in 1..Len(wire) :
            (k < l) => \E i, j \in 1..Len(Fields) :
                         i < j /\ Fields[i] = wire[k][1] /\ Fields[j] = wire[l][1]
      /\ \A k \in 1..Len(wire) : wire[k][2][1] # "null"
      /\ (a = [JSONAction EXCEPT !.action_type = Some("click"),
                                 !.index = Some(<<"int", 5>>)])
            => wire = << <<"action_type", <<"string", "click">> >>,
                         <<"index", <<"number", 5>> >> >>

C14_Witness ==
    /\ jpc = "serialized"
    /\ a.action_type = Some("click")
    /\ a.index = Some(<<"int", 5>>)
    /\ a.direction = None
    /\ a.text = None
    /\ Keys(wire) = <<"action_type", "index">>

\* C15: construction refuses an action_type outside _ACTION_TYPES and
\* accepts every combination of fields whose action_type is a member.
C15_KindCheckedAtConstruction ==
    (jpc # "kwargs" /\ a.action_type # None) =>
        ((jpc = "rejected") <=> (Val(a.action_type) \notin _ACTION_TYPES))

\* C16: the interaction cache of every session is a string in every state:
\* it is never None, whatever actions were executed, an answer whose text is
\* unset included.
C16_CacheIsString ==
    \A s \in Sessions : interaction_cache[s] # None

\* The call in flight or last returned is execute_action on a non-answer.
IsActuation == op.name = "execute_action" /\ ~IsAnswer(op.arg)

C17_OneProbeOneActuation ==
    IsActuation =>
      /\ Cardinality(CallsOf("step")) = 1
      /\ calls[1].fn = "step"
      /\ Cardinality(CallsOf("execute_adb_action")) <= 1
      /\ (calls[1].ok /\ calls[2].ok)
            => CallsOf("execute_adb_action") = {3}
      /\ (result.kind = "return") => CallsOf("execute_adb_action") = {3}
      /\ \A i \in CallsOf("execute_adb_action") :
            /\ i = Len(calls)
            /\ calls[i].arg = <<Val(last_obs).ui_elements>>
      /\ stable_checks = 0
      /\ elapsed_time = 0
      /\ current_state = None
      /\ interaction_cache = pre_cache

C17_BaselineKept ==
    (pc = "idle" /\ op'.name = "execute_action" /\ ~IsAnswer(op'.arg))
        => prior_state' = prior_state

\* C17: execute_action on a non-answer action makes exactly one device probe
\* (a step, with no sleep and no comparison against the baseline), then, when
\* the probe and the screen size are returned, exactly one actuation call,
\* last, with the ui_elements of that very snapshot; it makes no actuation
\* without the probe, and leaves the stabilization baseline and the
\* interaction cache as they were.
C17_ProbeThenActuate ==
    []C17_OneProbeOneActuation /\ [][C17_BaselineKept]_vars

C17_Witness ==
    /\ IsActuation
    /\ op.arg.action_type = Some("click")
    /\ result.kind = "return"
    /\ Len(calls) = 3
    /\ calls[3].fn = "execute_adb_action"
    /\ prior_state[cur] # None
    /\ <<Val(prior_state[cur]).ui_elements>> # calls[3].arg

\* The number of elements at the end of h that all equal e.
TrailingMatches(h, e) ==
    CHOOSE k \in 0..Len(h) :
        /\ \A i \in (Len(h) - k + 1)..Len(h) : h[i] = e
        /\ (k = Len(h) \/ h[Len(h) - k] # e)

\* One iteration of the loop: a sample that matches the baseline adds one to
\* stable_checks and leaves the baseline; one that differs resets
\* stable_checks to 0 and becomes the baseline.
C18_Iteration ==
    (pc = "loop" /\ stable_checks < stability_threshold /\ elapsed_time < timeout)
      => IF Val(current_state).ui_elements = Val(prior_state[cur]).ui_elements
         THEN stable_checks' = stable_checks + 1 /\ prior_state' = prior_state
         ELSE stable_checks' = 0 /\ prior_state'[cur] = current_state

C18_Range ==
    IsStableOp => (0 <= stable_checks /\ stable_checks <= stability_threshold)

\* At the head of the loop the last snapshot is not compared yet; the ones
\* before it, leaving out the one acquired as the baseline at line 215, are
\* the samples the loop has taken.
C18_CountsSamplesLikeBaseline ==
    (IsStableOp /\ pc = "loop" /\ nsamples = Len(samples)) =>
        stable_checks =
            TrailingMatches(SubSeq(samples, IF had_prior THEN 1 ELSE 2,
                                   Len(samples) - 1),
                            Val(prior_state[cur]).ui_elements)

\* C18, as claimed: each iteration either resets stable_checks and replaces
\* the baseline or adds one and keeps it, 0 <= stable_checks <=
\* stability_threshold throughout, and stable_checks is the number of most
\* recent samples in a row whose elements equal the current baseline's.
C18_CountIsRunOfSamples ==
    /\ [][C18_Iteration]_vars
    /\ []C18_Range
    /\ []C18_CountsSamplesLikeBaseline

\* At the head of the loop, over every snapshot of the call but the last
\* (the baseline acquired at line 215 included): the run of snapshots like
\* the baseline is one longer than stable_checks when the baseline is one
\* of them, and is stable_checks when the baseline came with the session.
C18_CountsMatches ==
    (IsStableOp /\ pc = "loop") =>
        LET run == TrailingMatches(SubSeq(samples, 1, Len(samples) - 1),
                                   Val(prior_state[cur]).ui_elements)
        IN  stable_checks = IF own_baseline THEN run - 1 ELSE run

\* C18, amended: each iteration either resets stable_checks and replaces the
\* baseline or adds one and keeps it, 0 <= stable_checks <=
\* stability_threshold throughout, and stable_checks is the number of most
\* recent samples in a row that matched the baseline when they were
\* compared: the sample that differed and became the baseline is itself not
\* counted.
C18_CountIsRunOfMatches ==
    /\ [][C18_Iteration]_vars
    /\ []C18_Range
    /\ []C18_CountsMatches

C18_Witness ==
    /\ IsStableOp
    /\ pc = "loop"
    /\ had_prior
    /\ own_baseline
    /\ stable_checks = 1
    /\ nsamples >= 3

\* The start of a stabilization call on session cur'.
C19_Start ==
    (pc = "idle" /\ IsStableOp') =>
        IF prior_state[cur'] = None
        THEN /\ ~had_prior'
             /\ calls'[1].fn = "step"
             /\ calls'[1].ok =>
                   /\ Len(calls') = 2
                   /\ calls'[2].fn = "step"
                   /\ prior_state'[cur'] # None
                   /\ own_baseline'
        ELSE /\ had_prior'
             /\ Len(calls') = 1
             /\ calls'[1].fn = "step"
             /\ prior_state' = prior_state
             /\ ~own_baseline'

\* Nothing but reset is looked at here, and nothing unsets a baseline.
C19_BaselineStays ==
    ~(pc = "idle" /\ op'.name = "reset") =>
        \A s \in Sessions : prior_state[s] # None => prior_state'[s] # None

C19_BaselineAfterCall ==
    (IsStableOp /\ result.kind # "raise") => prior_state[cur] # None

\* C19: a stabilization call acquires a baseline at its start exactly when
\* the session holds none: on a session without a baseline it makes one
\* probe for the baseline and one for the first sample, and leaves the
\* session with a baseline; on a session with one it makes the probe for the
\* first sample only and leaves the baseline as the previous call left it;
\* between calls, with no reset, a baseline is never unset.
C19_BaselineOnlyIfNone ==
    /\ [][C19_Start]_vars
    /\ [][C19_BaselineStays]_vars
    /\ []C19_BaselineAfterCall

C19_Witness ==
    /\ IsStableOp
    /\ pc = "loop"
    /\ had_prior
    /\ Len(calls) = 1
    /\ stable_checks = 0
    /\ Val(prior_state[cur]).ui_elements # Val(current_state).ui_elements

\* Every snapshot of the call is remembered and they all hold the same
\* ui_elements.
Unchanging ==
    /\ nsamples = Len(samples)
    /\ \A i, j \in 1..Len(samples) : samples[i] = samples[j]

C20_ExitsThroughThreshold ==
    /\ stable_checks = stability_threshold
    /\ elapsed_time < timeout
    /\ elapsed_time <= stability_threshold * sleep_duration
    /\ Val(result.value).ui_elements = Val(prior_state[cur]).ui_elements

\* C20, as claimed: a stabilization call during which the device's
\* ui_elements do not change, with stability_threshold * sleep_duration <
\* timeout, returns with stable_checks = stability_threshold after at most
\* stability_threshold sleeps, whatever baseline the session held, and the
\* snapshot returned has the elements of the baseline.
C20_UnchangingIsStable ==
    ( /\ IsStableOp
      /\ pc = "done"
      /\ result.kind = "return"
      /\ Unchanging
      /\ stability_threshold * sleep_duration < timeout )
    => C20_ExitsThroughThreshold

\* C20, amended: the same for stability_threshold >= 1.
C20_UnchangingIsStableFromOne ==
    ( /\ IsStableOp
      /\ pc = "done"
      /\ result.kind = "return"
      /\ Unchanging
      /\ stability_threshold >= 1
      /\ stability_threshold * sleep_duration < timeout )
    => C20_ExitsThroughThreshold

C20_Witness ==
    /\ IsStableOp
    /\ pc = "done"
    /\ result.kind = "return"
    /\ Unchanging
    /\ had_prior
    /\ own_baseline
    /\ stability_threshold >= 2
    /\ stability_threshold * sleep_duration < timeout
    /\ elapsed_time = stability_threshold * sleep_duration
====
